---------------------------- MODULE Spec2Model ----------------------------
(***************************************************************************)
(* SolarIQ (src/newproj.py): a Streamlit script that geocodes a city,      *)
(* fetches irradiance and temperature, runs SolarCellCalculator and        *)
(* renders three tabs (performance, sizing, environmental impact).         *)
(*                                                                         *)
(* Numbers.  Python floats are modelled as exact rationals <<n, d>> with   *)
(* d > 0 in lowest terms, so "equal within floating-point tolerance" is    *)
(* checked as exact equality of the real-number results.  The two          *)
(* transcendental functions are tabulated: sin at the tilt angles used,    *)
(* where it is rational, and exp(-d^2/32) rounded to three decimals.       *)
(* None is the empty tuple.                                                *)
(***************************************************************************)
EXTENDS Integers, Sequences, FiniteSets, TLC

VARIABLES
    pc,                 \* position of the script run (or of the calculator harness)
    location,           \* text inputs of the three tabs: [1..3 -> city or ""]
    cache_irradiance,   \* st.cache_data of fetch_daily_irradiance: city -> entry
    cache_temperature,  \* st.cache_data of fetch_tomorrow_temperature: city -> entry
    coords,             \* script global coords
    ghi_daily,          \* script global ghi_daily
    temperature,        \* script global temperature
    efficiency,         \* script global efficiency (a fraction)
    area,               \* script global area (m2)
    tilt,               \* script global tilt (degrees)
    result,             \* script global result (dict of calculate_daily_production)
    target_annual_kwh,  \* script global target_annual_kwh
    base_output_per_m2, \* script global base_output_per_m2
    required_area,      \* script global required_area
    tabs,               \* what each tab's pipeline has done in this run
    errors,             \* st.error messages shown in this run, in order
    exc                 \* the uncaught exception that ended the run, or "none"

vars == <<pc, location, cache_irradiance, cache_temperature, coords,
          ghi_daily, temperature, efficiency, area, tilt, result,
          target_annual_kwh, base_output_per_m2, required_area, tabs,
          errors, exc>>

None == <<>>

---------------------------------------------------------------------------
(* Exact rational arithmetic standing for Python float arithmetic.         *)

Abs(x) == IF x < 0 THEN -x ELSE x

RECURSIVE GCD(_, _)
GCD(a, b) == IF b = 0 THEN a ELSE GCD(b, a % b)

Norm(n, d) ==
    LET g == GCD(Abs(n), Abs(d))
        s == IF d < 0 THEN -1 ELSE 1
    IN  <<(s * n) \div g, (s * d) \div g>>

Q(n) == <<n, 1>>

\* x * y, cross-reduced first so that intermediate products stay small
RMul(x, y) ==
    LET g1 == GCD(Abs(x[1]), y[2])
        g2 == GCD(Abs(y[1]), x[2])
    IN  Norm((x[1] \div g1) * (y[1] \div g2), (x[2] \div g2) * (y[2] \div g1))

\* x / y for y # 0 (Python raises ZeroDivisionError otherwise; callers guard)
RDiv(x, y) == RMul(x, Norm(y[2], y[1]))

RAdd(x, y) ==
    LET g == GCD(x[2], y[2])
    IN  Norm(x[1] * (y[2] \div g) + y[1] * (x[2] \div g), (x[2] \div g) * y[2])

RSub(x, y) == RAdd(x, <<-y[1], y[2]>>)

RLeq(x, y) == RSub(x, y)[1] <= 0

RMax(x, y) == IF RLeq(x, y) THEN y ELSE x

IsZero(x) == x[1] = 0

RGeq(x, y) == RLeq(y, x)

\* Python's sum(): 0 + s[1] + s[2] + ...  Addition of exact rationals is
\* associative, so the entries are added pairwise, which keeps the evaluation
\* shallow and gives the same value as the left-to-right sum.
RECURSIVE RSumRange(_, _, _)
RSumRange(s, lo, hi) ==
    IF lo > hi THEN Q(0)
    ELSE IF lo = hi THEN s[lo]
    ELSE LET mid == (lo + hi) \div 2
         IN  RAdd(RSumRange(s, lo, mid), RSumRange(s, mid + 1, hi))

RSum(s) == RSumRange(s, 1, Len(s))

---------------------------------------------------------------------------
(* SolarCellCalculator.calculate_daily_production                          *)

Hours == 24

\* a variant that counts the hours from 1: np.arange(1, 25)
ArangeMut == [i \in 1..Hours |-> i]

\* np.arange(24): the hour indices 0..23
Arange == [i \in 1..Hours |-> i - 1]

\* np.exp(-0.5 * (x/4)**2) for an integer x, in thousandths
ExpMilli(x) ==
    CASE Abs(x) = 0 -> 1000  [] Abs(x) = 1 -> 969  [] Abs(x) = 2 -> 882
      [] Abs(x) = 3 -> 755   [] Abs(x) = 4 -> 607  [] Abs(x) = 5 -> 458
      [] Abs(x) = 6 -> 325   [] Abs(x) = 7 -> 216  [] Abs(x) = 8 -> 135
      [] Abs(x) = 9 -> 80    [] Abs(x) = 10 -> 44  [] Abs(x) = 11 -> 23
      [] Abs(x) = 12 -> 11   [] OTHER -> 0

\* profile = np.exp(-0.5 * ((np.arange(24) - 12)/4)**2), before normalisation
RawProfile == [i \in 1..Hours |-> Norm(ExpMilli(Arange[i] - 12), 1000)]

\* a variant that leaves the profile unnormalised
NormalizeMut(p) == p

\* profile /= profile.sum()
Normalize(p) == LET s == RSum(p) IN [i \in 1..Len(p) |-> RDiv(p[i], s)]

Profile == Normalize(RawProfile)

\* a variant that adds instead of scaling: daily_irradiance_kwh + 1000
ToWhMut(kwh) == RAdd(kwh, Q(1000))

\* daily_irradiance_wh = daily_irradiance_kwh * 1000
ToWh(kwh) == RMul(kwh, Q(1000))

\* a variant without the clamp: 1 - 0.004 * (temperature_C - 25)
TempFactorNoClamp(t) == RSub(Q(1), RMul(Norm(4, 1000), RSub(t, Q(25))))

\* a variant with the coefficient off by ten: 1 - 0.04 * max(0, temperature_C - 25)
TempFactorSteep(t) == RSub(Q(1), RMul(Norm(4, 100), RMax(Q(0), RSub(t, Q(25)))))

\* temp_factor = 1 - 0.004 * max(0, temperature_C - 25)
TempFactor(t) == RSub(Q(1), RMul(Norm(4, 1000), RMax(Q(0), RSub(t, Q(25)))))

\* np.sin(np.radians(deg)) at the angles where it is rational
SinDeg(deg) == CASE deg = 0 -> Q(0) [] deg = 30 -> Norm(1, 2) [] deg = 90 -> Q(1)

\* tilt_factor = np.sin(np.radians(self.tilt_angle)) * 0.5 + 0.5
TiltFactor(deg) == RAdd(RMul(SinDeg(deg), Norm(1, 2)), Norm(1, 2))

\* calculate_daily_production of SolarCellCalculator(eff, area_m2, tilt_angle)
CalculateDailyProduction(eff, area_m2, tilt_angle, daily_irradiance_kwh, temperature_C) ==
    LET daily_irradiance_wh == ToWh(daily_irradiance_kwh)
        temp_factor == TempFactor(temperature_C)
        tilt_factor == TiltFactor(tilt_angle)
        hourly_irradiance == [i \in 1..Len(Profile) |-> RMul(daily_irradiance_wh, Profile[i])]
        hourly_production ==
            [i \in 1..Len(hourly_irradiance) |->
                RMul(RMul(RMul(RMul(hourly_irradiance[i], area_m2), eff),
                          temp_factor), tilt_factor)]
    IN  [hourly_production |-> hourly_production,
         total_production |-> RSum(hourly_production)]

---------------------------------------------------------------------------
(* Input domains.                                                          *)

Tabs == 1..3

\* city names typed into st.text_input; "" is the empty input
Cities == {"Austin"}

\* st.sidebar.slider("Cell Efficiency (%)", 5, 30, 20) / 100, and the
\* efficiency=1 of the sizing tab's calculator
EfficiencyValues == {Norm(5, 100), Norm(20, 100), Norm(30, 100), Q(1)}
\* st.sidebar.number_input("Panel Area (m2)", min_value=0.1, value=2.0, step=0.1)
AreaValues == {Norm(1, 10), Q(2)}
\* st.sidebar.slider("Tilt Angle (degrees)", 0, 90, 30)
TiltValues == {0, 30, 90}
\* avg_ghi annual values an irradiance response can carry (kWh/m2/day)
GhiValues == {Q(0), Q(5)}
\* temperatures a forecast response can carry (deg C)
TemperatureValues == {Q(-10), Q(25), Q(26), Q(35), Q(275), Q(300)}

\* temperatures the forecast carries in a script run
ForecastValues == {Q(-10), Q(25), Q(35), Q(275), Q(300)}

\* the widget values tried in a script run
SliderEfficiency == {Norm(5, 100), Norm(20, 100)}
InputArea == {Q(2)}
SliderTilt == {0, 30}
\* st.sidebar.number_input("Monthly Electricity Use (kWh)", min_value=50, value=900, step=50);
\* 3650 is on the step grid and keeps target / yield a short fraction
InputMonthlyUsage == {3650}
\* st.sidebar.slider("Offset Target (%)", min_value=10, max_value=100, value=80)
SliderOffset == {80, 100}

\* what the geocoding request can come back with: a match, an empty list,
\* or a failure (requests raises, raise_for_status raises, bad JSON)
GeoResponses == {"hit", "empty", "error"}

\* an HTTP exchange: status 0 stands for requests.get raising; body is
\* parsable JSON or not; value is the field read from it, None when missing
Http(status, parsable, value) == [status |-> status, parsable |-> parsable, value |-> value]

IrradianceResponses ==
    {Http(0, FALSE, None), Http(500, FALSE, None), Http(200, FALSE, None),
     Http(200, TRUE, None)} \cup {Http(200, TRUE, v) : v \in GhiValues}

TemperatureResponses ==
    {Http(0, FALSE, None), Http(500, FALSE, None), Http(200, FALSE, None),
     Http(200, TRUE, None)} \cup {Http(200, TRUE, v) : v \in ForecastValues}

---------------------------------------------------------------------------
(* The collaborators: geocoding and the two cached fetches.                *)

Coordinates == <<30, -97>>

Ret(v) == [raised |-> "none", value |-> v]
Raise(e) == [raised |-> e, value |-> None]

\* get_coordinates_from_city: every failure is caught and gives None
get_coordinates_from_city(geo) == IF geo = "hit" THEN Coordinates ELSE None

\* fetch_daily_irradiance, the body behind st.cache_data
fetch_daily_irradiance(geo, http) ==
    LET c == get_coordinates_from_city(geo)
    IN  IF c = None THEN Ret(None)
        ELSE IF http.status = 0 THEN Raise("RequestException")
        ELSE IF http.status = 200
             THEN IF http.parsable /\ http.value # None
                  THEN Ret(http.value)
                  ELSE Ret(None)
        ELSE Ret(None)

\* fetch_tomorrow_temperature, the body behind st.cache_data
fetch_tomorrow_temperature(geo, http) ==
    LET c == get_coordinates_from_city(geo)
    IN  IF c = None THEN Raise("TypeError")
        ELSE IF http.status = 0 THEN Raise("RequestException")
        ELSE IF http.status = 200
             THEN IF ~http.parsable THEN Raise("JSONDecodeError")
                  ELSE IF http.value # None THEN Ret(http.value)
                  ELSE Ret(Q(25))
        ELSE Ret(Q(25))

Miss == [cached |-> FALSE, value |-> None]
Hit(v) == [cached |-> TRUE, value |-> v]

---------------------------------------------------------------------------
(* The script run.  pc = [tab, step]; a run that ended keeps the tab it    *)
(* ended in.                                                               *)

At(t, step) == [tab |-> t, step |-> step]

NoTab == [geo |-> "unset", ghi |-> "unset", estimated |-> FALSE, outputs |-> {}]

\* the statement that follows `step` of tab t in the script
After(t, step) ==
    CASE t = 1 /\ step = "geocode"     -> At(1, "widgets")
      [] t = 1 /\ step = "widgets"     -> At(1, "irradiance")
      [] t = 1 /\ step = "irradiance"  -> At(1, "temperature")
      [] t = 1 /\ step = "temperature" -> At(1, "check")
      [] t = 1 /\ step = "check"       -> At(1, "estimate")
      [] t = 1 /\ step = "estimate"    -> At(2, "geocode")
      [] t = 2 /\ step = "geocode"     -> At(2, "irradiance")
      [] t = 2 /\ step = "irradiance"  -> At(2, "temperature")
      [] t = 2 /\ step = "temperature" -> At(2, "check")
      [] t = 2 /\ step = "check"       -> At(2, "widgets")
      [] t = 2 /\ step = "widgets"     -> At(2, "base")
      [] t = 2 /\ step = "base"        -> At(2, "zero_check")
      [] t = 2 /\ step = "zero_check"  -> At(2, "size")
      [] t = 2 /\ step = "size"        -> At(3, "geocode")
      [] t = 3 /\ step = "geocode"     -> At(3, "irradiance")
      [] t = 3 /\ step = "irradiance"  -> At(3, "check")
      [] t = 3 /\ step = "check"       -> At(3, "temperature")
      [] t = 3 /\ step = "temperature" -> At(3, "widgets")
      [] t = 3 /\ step = "widgets"     -> At(3, "estimate")
      [] t = 3 /\ step = "estimate"    -> At(3, "done")

\* where the script goes when tab t's `if location:` body is skipped
SkipTab(t) == IF t = 3 THEN At(3, "done") ELSE At(t + 1, "geocode")

\* a variant in which the stop only leaves the current tab
StStopMut(t) == SkipTab(t)

\* st.stop(): the whole script run ends here
StStop(t) == At(t, "stopped")

NoExc == [type |-> "none", raised_in |-> "none"]

Init ==
    /\ pc = At(1, "geocode")
    /\ location \in [Tabs -> Cities \cup {""}]
    /\ cache_irradiance = [c \in Cities |-> Miss]
    /\ cache_temperature = [c \in Cities |-> Miss]
    /\ coords = None
    /\ ghi_daily = None
    /\ temperature = None
    /\ efficiency = None
    /\ area = None
    /\ tilt = 0
    /\ result = None
    /\ target_annual_kwh = None
    /\ base_output_per_m2 = None
    /\ required_area = None
    /\ tabs = [t \in Tabs |-> NoTab]
    /\ errors = <<>>
    /\ exc = NoExc

caches == <<cache_irradiance, cache_temperature>>
panel == <<efficiency, area, tilt>>
sizing == <<target_annual_kwh, base_output_per_m2, required_area>>

\* `if location: coords = get_coordinates_from_city(location)`, the error
\* and st.stop() when nothing matched
Geocode(t) ==
    /\ pc = At(t, "geocode")
    /\ IF location[t] = ""
       THEN /\ pc' = IF t = 1 THEN After(1, "geocode") ELSE SkipTab(t)
            /\ UNCHANGED <<coords, tabs, errors>>
       ELSE \E geo \in GeoResponses :
              /\ coords' = get_coordinates_from_city(geo)
              /\ IF coords' = None
                 THEN /\ errors' = Append(errors, "No matching city found.")
                      /\ tabs' = [tabs EXCEPT ![t].geo = "none"]
                      /\ pc' = StStop(t)
                 ELSE /\ tabs' = [tabs EXCEPT ![t].geo = "found"]
                      /\ pc' = After(t, "geocode")
                      /\ UNCHANGED errors
    /\ UNCHANGED <<location, caches, ghi_daily, temperature, panel, result, sizing, exc>>

\* tab 1's sidebar widgets, read whether or not a city was typed
Widgets1 ==
    /\ pc = At(1, "widgets")
    /\ efficiency' \in SliderEfficiency
    /\ area' \in InputArea
    /\ tilt' \in SliderTilt
    /\ pc' = IF location[1] = "" THEN SkipTab(1) ELSE After(1, "widgets")
    /\ UNCHANGED <<location, caches, coords, ghi_daily, temperature, result,
                   sizing, tabs, errors, exc>>

\* ghi_daily = fetch_daily_irradiance(location), through st.cache_data
FetchIrradiance(t) ==
    /\ pc = At(t, "irradiance")
    /\ LET city == location[t]
       IN  IF cache_irradiance[city].cached
           THEN /\ ghi_daily' = cache_irradiance[city].value
                /\ tabs' = [tabs EXCEPT ![t].ghi =
                               IF ghi_daily' = None THEN "none" ELSE "value"]
                /\ pc' = After(t, "irradiance")
                /\ UNCHANGED <<cache_irradiance, exc>>
           ELSE \E geo \in GeoResponses, http \in IrradianceResponses :
                  LET o == fetch_daily_irradiance(geo, http)
                  IN  IF o.raised # "none"
                      THEN /\ exc' = [type |-> o.raised, raised_in |-> "fetch_daily_irradiance"]
                           /\ pc' = At(t, "crashed")
                           /\ UNCHANGED <<ghi_daily, cache_irradiance, tabs>>
                      ELSE /\ ghi_daily' = o.value
                           /\ cache_irradiance' = [cache_irradiance EXCEPT ![city] = Hit(o.value)]
                           /\ tabs' = [tabs EXCEPT ![t].ghi =
                                          IF o.value = None THEN "none" ELSE "value"]
                           /\ pc' = After(t, "irradiance")
                           /\ UNCHANGED exc
    /\ UNCHANGED <<location, cache_temperature, coords, temperature, panel,
                   result, sizing, errors>>

\* temperature = fetch_tomorrow_temperature(location), through st.cache_data
FetchTemperature(t) ==
    /\ pc = At(t, "temperature")
    /\ LET city == location[t]
       IN  IF cache_temperature[city].cached
           THEN /\ temperature' = cache_temperature[city].value
                /\ pc' = After(t, "temperature")
                /\ UNCHANGED <<cache_temperature, exc>>
           ELSE \E geo \in GeoResponses, http \in TemperatureResponses :
                  LET o == fetch_tomorrow_temperature(geo, http)
                  IN  IF o.raised # "none"
                      THEN /\ exc' = [type |-> o.raised, raised_in |-> "fetch_tomorrow_temperature"]
                           /\ pc' = At(t, "crashed")
                           /\ UNCHANGED <<temperature, cache_temperature>>
                      ELSE /\ temperature' = o.value
                           /\ cache_temperature' = [cache_temperature EXCEPT ![city] = Hit(o.value)]
                           /\ pc' = After(t, "temperature")
                           /\ UNCHANGED exc
    /\ UNCHANGED <<location, cache_irradiance, coords, ghi_daily, panel, result,
                   sizing, tabs, errors>>

\* a variant in which the None check never fires
IrradianceMissingMut(g) == FALSE

\* `ghi_daily is None`
IrradianceMissing(g) == g = None

\* `if ghi_daily is None:` st.error(...) and st.stop()
CheckIrradiance(t) ==
    /\ pc = At(t, "check")
    /\ IF IrradianceMissing(ghi_daily)
       THEN /\ errors' = Append(errors, "Failed to retrieve irradiance data.")
            /\ pc' = StStop(t)
       ELSE /\ pc' = After(t, "check")
            /\ UNCHANGED errors
    /\ UNCHANGED <<location, caches, coords, ghi_daily, temperature, panel,
                   result, sizing, tabs, exc>>

\* daily_kwh = result['total_production'] / 1000; annual_kwh = daily_kwh * 365
AnnualKwh(total_production) == RMul(RDiv(total_production, Q(1000)), Q(365))

\* the one-line evaluation of tab 1
Verdict(annual_kwh) ==
    IF RGeq(annual_kwh, Q(3000)) THEN "success"
    ELSE IF RGeq(annual_kwh, Q(900)) THEN "info"
    ELSE "warning"

\* tab 1: the calculator, the verdict, the metrics and the chart
Estimate1 ==
    /\ pc = At(1, "estimate")
    /\ result' = CalculateDailyProduction(efficiency, area, tilt, ghi_daily, temperature)
    /\ tabs' = [tabs EXCEPT ![1].estimated = TRUE,
                            ![1].outputs = {Verdict(AnnualKwh(result'.total_production)),
                                            "metrics", "chart"}]
    /\ pc' = After(1, "estimate")
    /\ UNCHANGED <<location, caches, coords, ghi_daily, temperature, panel,
                   sizing, errors, exc>>

\* tab 2: the sizing widgets and target_annual_kwh
Widgets2 ==
    /\ pc = At(2, "widgets")
    /\ efficiency' \in SliderEfficiency
    /\ tilt' \in SliderTilt
    /\ \E monthly_usage \in InputMonthlyUsage, offset_target \in SliderOffset :
          target_annual_kwh' = RMul(Q(monthly_usage * 12), Norm(offset_target, 100))
    /\ pc' = After(2, "widgets")
    /\ UNCHANGED <<location, caches, coords, ghi_daily, temperature, area, result,
                   base_output_per_m2, required_area, tabs, errors, exc>>

\* tab 2: calculator_temp = SolarCellCalculator(efficiency=1, area_m2=1, tilt_angle=tilt)
\* and base_output_per_m2 from its total
BaseOutput2 ==
    /\ pc = At(2, "base")
    /\ base_output_per_m2' =
          AnnualKwh(CalculateDailyProduction(Q(1), Q(1), tilt, ghi_daily,
                                             temperature).total_production)
    /\ tabs' = [tabs EXCEPT ![2].estimated = TRUE]
    /\ pc' = After(2, "base")
    /\ UNCHANGED <<location, caches, coords, ghi_daily, temperature, panel, result,
                   target_annual_kwh, required_area, errors, exc>>

\* a variant that tests `< 0` instead of `== 0`
IsZeroYieldMut(y) == y[1] < 0

\* `if base_output_per_m2 == 0:`
IsZeroYield(y) == IsZero(y)

\* tab 2: the zero-yield error and st.stop()
ZeroCheck2 ==
    /\ pc = At(2, "zero_check")
    /\ IF IsZeroYield(base_output_per_m2)
       THEN /\ errors' = Append(errors, "Irradiance data returned 0. Cannot size the system.")
            /\ pc' = StStop(2)
       ELSE /\ pc' = After(2, "zero_check")
            /\ UNCHANGED errors
    /\ UNCHANGED <<location, caches, coords, ghi_daily, temperature, panel, result,
                   sizing, tabs, exc>>

\* tab 2: required_area = target_annual_kwh / base_output_per_m2 and the
\* results; a zero divisor raises ZeroDivisionError
Size2 ==
    /\ pc = At(2, "size")
    /\ IF IsZero(base_output_per_m2)
       THEN /\ exc' = [type |-> "ZeroDivisionError", raised_in |-> "tab2"]
            /\ pc' = At(2, "crashed")
            /\ UNCHANGED <<required_area, tabs>>
       ELSE /\ required_area' = RDiv(target_annual_kwh, base_output_per_m2)
            /\ tabs' = [tabs EXCEPT ![2].outputs = {"sizing"}]
            /\ pc' = After(2, "size")
            /\ UNCHANGED exc
    /\ UNCHANGED <<location, caches, coords, ghi_daily, temperature, panel, result,
                   target_annual_kwh, base_output_per_m2, errors>>

\* tab 3: its own efficiency, area and tilt widgets
Widgets3 ==
    /\ pc = At(3, "widgets")
    /\ efficiency' \in SliderEfficiency
    /\ area' \in InputArea
    /\ tilt' \in SliderTilt
    /\ pc' = After(3, "widgets")
    /\ UNCHANGED <<location, caches, coords, ghi_daily, temperature, result,
                   sizing, tabs, errors, exc>>

\* tab 3: the calculator and the CO2 figures
Estimate3 ==
    /\ pc = At(3, "estimate")
    /\ result' = CalculateDailyProduction(efficiency, area, tilt, ghi_daily, temperature)
    /\ tabs' = [tabs EXCEPT ![3].estimated = TRUE, ![3].outputs = {"co2"}]
    /\ pc' = After(3, "estimate")
    /\ UNCHANGED <<location, caches, coords, ghi_daily, temperature, panel,
                   sizing, errors, exc>>

RunOver == pc.step \in {"done", "stopped", "crashed"}

\* a widget interaction: Streamlit runs the script again from the top, with
\* fresh globals and a fresh page; only the st.cache_data caches survive
Rerun ==
    /\ RunOver
    /\ pc' = At(1, "geocode")
    /\ location' \in [Tabs -> Cities \cup {""}]
    /\ coords' = None
    /\ ghi_daily' = None
    /\ temperature' = None
    /\ efficiency' = None
    /\ area' = None
    /\ tilt' = 0
    /\ result' = None
    /\ target_annual_kwh' = None
    /\ base_output_per_m2' = None
    /\ required_area' = None
    /\ tabs' = [t \in Tabs |-> NoTab]
    /\ errors' = <<>>
    /\ exc' = NoExc
    /\ UNCHANGED caches

Next ==
    \/ \E t \in Tabs : Geocode(t)
    \/ Widgets1
    \/ \E t \in Tabs : FetchIrradiance(t)
    \/ \E t \in Tabs : FetchTemperature(t)
    \/ \E t \in Tabs : CheckIrradiance(t)
    \/ Estimate1
    \/ Widgets2
    \/ BaseOutput2
    \/ ZeroCheck2
    \/ Size2
    \/ Widgets3
    \/ Estimate3
    \/ Rerun

Spec == Init /\ [][Next]_vars

---------------------------------------------------------------------------
(* The calculator on its own: inputs drawn from the domains above, one     *)
(* call of calculate_daily_production.                                     *)

CalcInit ==
    /\ pc = At(0, "calc_ready")
    /\ location = [t \in Tabs |-> ""]
    /\ cache_irradiance = [c \in Cities |-> Miss]
    /\ cache_temperature = [c \in Cities |-> Miss]
    /\ coords = None
    /\ ghi_daily \in GhiValues
    /\ temperature \in TemperatureValues
    /\ efficiency \in EfficiencyValues
    /\ area \in AreaValues
    /\ tilt \in TiltValues
    /\ result = None
    /\ target_annual_kwh = None
    /\ base_output_per_m2 = None
    /\ required_area = None
    /\ tabs = [t \in Tabs |-> NoTab]
    /\ errors = <<>>
    /\ exc = NoExc

CalcCall ==
    /\ pc = At(0, "calc_ready")
    /\ result' = CalculateDailyProduction(efficiency, area, tilt, ghi_daily, temperature)
    /\ pc' = At(0, "calc_done")
    /\ UNCHANGED <<location, caches, coords, ghi_daily, temperature, panel,
                   sizing, tabs, errors, exc>>

CalcNext == CalcCall

CalcSpec == CalcInit /\ [][CalcNext]_vars

---------------------------------------------------------------------------
(* Properties of the script run (Spec).                                    *)

Last(s) == s[Len(s)]

\* C1: fetch_tomorrow_temperature never fails its caller: no run ends in an
\* exception raised inside it, and once a tab is past its temperature fetch
\* the temperature is a number.
C1_TemperatureNeverFails ==
    /\ exc.raised_in # "fetch_tomorrow_temperature"
    /\ \A t \in Tabs : pc = After(t, "temperature") => temperature # None

\* C3: in every tab the calculator runs, and results are rendered, only
\* after geocoding found the city and the irradiance fetch gave a value; a
\* not-found city ends the run at once with the error shown; a missing
\* irradiance lets the run go no further than its None check, where the
\* error is shown and the run stops (or it dies before, in the temperature
\* fetch), and in both cases the tab has produced nothing.
C3_EstimateOnlyAfterInputs ==
    \A t \in Tabs :
        /\ (tabs[t].estimated \/ tabs[t].outputs # {})
              => tabs[t].geo = "found" /\ tabs[t].ghi = "value"
        /\ tabs[t].geo = "none"
              => /\ pc = At(t, "stopped")
                 /\ errors # <<>> /\ Last(errors) = "No matching city found."
                 /\ ~tabs[t].estimated /\ tabs[t].outputs = {}
        /\ tabs[t].ghi = "none"
              => /\ ~tabs[t].estimated /\ tabs[t].outputs = {}
                 /\ pc.tab = t
                 /\ pc.step \in {"temperature", "check", "stopped", "crashed"}
                 /\ pc.step = "stopped"
                       => errors # <<>> /\ Last(errors) = "Failed to retrieve irradiance data."
                 /\ pc.step = "crashed" => exc # NoExc

C3_Witness ==
    /\ pc = At(2, "stopped")
    /\ tabs[2].geo = "found" /\ tabs[2].ghi = "none"
    /\ Last(errors) = "Failed to retrieve irradiance data."
    /\ ~tabs[2].estimated /\ tabs[2].outputs = {}

\* C4: in the sizing tab a per-m2 annual yield of 0 is reported and stops
\* the run before the division: required_area is never computed from a zero
\* divisor and no ZeroDivisionError is raised.
C4_ZeroYieldReported ==
    /\ exc.type # "ZeroDivisionError"
    /\ required_area # None => ~IsZero(base_output_per_m2)
    /\ (base_output_per_m2 # None /\ IsZero(base_output_per_m2) /\ pc # At(2, "zero_check"))
          => /\ pc = At(2, "stopped")
             /\ Last(errors) = "Irradiance data returned 0. Cannot size the system."
             /\ tabs[2].outputs = {}

C4_Witness ==
    /\ pc = At(2, "stopped")
    /\ base_output_per_m2 # None /\ IsZero(base_output_per_m2)
    /\ required_area = None

\* C8: sizing round trip: required_area = T / Y, and the calculator run
\* again with area = required_area and the panel settings selected in the
\* sizing tab (efficiency slider, tilt) gives an annual production of T.
C8_SizingRoundTrip ==
    (pc = At(3, "geocode") /\ tabs[2].outputs = {"sizing"})
       => /\ required_area = RDiv(target_annual_kwh, base_output_per_m2)
          /\ AnnualKwh(CalculateDailyProduction(efficiency, required_area, tilt, ghi_daily,
                                                temperature).total_production)
                = target_annual_kwh

\* the results a finished pipeline of tab t has rendered
Complete(t) ==
    /\ tabs[t].geo = "found" /\ tabs[t].ghi = "value" /\ tabs[t].estimated
    /\ CASE t = 1 -> {"metrics", "chart"} \subseteq tabs[t].outputs
         [] t = 2 -> tabs[t].outputs = {"sizing"}
         [] t = 3 -> tabs[t].outputs = {"co2"}

\* C10: the tab pipelines run in the order 1, 2, 3; a run is in tab t only
\* if every earlier tab with a city ran to its end, so a stop in one tab
\* leaves every later tab untouched whatever its city, and the results of
\* the earlier tabs stay as rendered.
C10_StopHaltsLaterTabs ==
    \A t \in Tabs :
        /\ t > pc.tab => tabs[t] = NoTab
        /\ (t < pc.tab \/ pc = At(3, "done"))
              => IF location[t] = "" THEN tabs[t] = NoTab ELSE Complete(t)

C10_Witness ==
    /\ pc = At(2, "stopped")
    /\ location[1] # "" /\ location[3] # ""
    /\ Complete(1)
    /\ tabs[3] = NoTab

---------------------------------------------------------------------------
(* Properties of calculate_daily_production (CalcSpec).  The valid inputs  *)
(* are the ones CalcInit draws: efficiency in (0,1], area > 0, tilt in     *)
(* [0,90], irradiance >= 0, any temperature.                               *)

Called == pc = At(0, "calc_done")

NonNegative24(r) ==
    /\ Len(r.hourly_production) = 24
    /\ \A i \in 1..Len(r.hourly_production) : r.hourly_production[i][1] >= 0

\* C2 as stated: for every valid input and any temperature the result has
\* exactly 24 entries, each non-negative.
C2_NonNegativeAnyTemperature == Called => NonNegative24(result)

\* C2 amended: for every valid input with a temperature of at most 275 deg C
\* (where the temperature factor is still >= 0) the result has exactly 24
\* entries, each non-negative.
C2_NonNegativeUpTo275 ==
    (Called /\ RLeq(temperature, Q(275))) => NonNegative24(result)

C2_Witness ==
    /\ Called /\ temperature = Q(35) /\ ghi_daily = Q(5)
    /\ result.hourly_production[1][1] > 0

\* C5: total_production is the sum of the 24 hourly entries and equals
\* irradianceWh * area * efficiency * tempFactor * tiltFactor.
C5_TotalIsSumAndProduct ==
    Called =>
       /\ Len(result.hourly_production) = 24
       /\ result.total_production = RSum(result.hourly_production)
       /\ result.total_production =
             RMul(RMul(RMul(RMul(RMul(ghi_daily, Q(1000)), area), efficiency),
                       RSub(Q(1), RMul(Norm(4, 1000), RMax(Q(0), RSub(temperature, Q(25)))))),
                  RAdd(RMul(SinDeg(tilt), Norm(1, 2)), Norm(1, 2)))

C5_Witness ==
    /\ Called /\ ghi_daily = Q(5) /\ temperature = Q(25) /\ efficiency = Norm(20, 100)
    /\ area = Q(2) /\ tilt = 30
    /\ result.total_production = Q(1500)

TotalAt(t) ==
    CalculateDailyProduction(efficiency, area, tilt, ghi_daily, t).total_production

\* C6: with the other inputs fixed, the total is the same for every
\* temperature <= 25 (the value at 25), and for 25 <= t1 <= t2 the total at
\* t2 is at most the total at t1.
C6_TemperatureMonotone ==
    Called =>
       /\ RLeq(temperature, Q(25)) => result.total_production = TotalAt(Q(25))
       /\ \A t2 \in TemperatureValues :
             (RLeq(Q(25), temperature) /\ RLeq(temperature, t2))
                => RLeq(TotalAt(t2), result.total_production)

C6_Witness ==
    /\ Called /\ temperature = Q(35) /\ ghi_daily = Q(5)
    /\ ~RLeq(TotalAt(Q(25)), result.total_production)
    /\ ~RLeq(result.total_production, TotalAt(Q(275)))

NoonIsMax(r) ==
    \A i \in 1..Len(r.hourly_production) :
        RLeq(r.hourly_production[i], r.hourly_production[13])

\* C7 as stated: for any positive irradiance, any valid panel and any
\* temperature, the noon entry (hour 12) is the maximum of the 24 entries.
C7_NoonIsMaxAnyTemperature ==
    (Called /\ ghi_daily[1] > 0) => NoonIsMax(result)

\* C7 amended: for any positive irradiance, any valid panel and a temperature
\* of at most 275 deg C, the noon entry (hour 12) is the maximum of the 24
\* entries.
C7_NoonIsMaxUpTo275 ==
    (Called /\ ghi_daily[1] > 0 /\ RLeq(temperature, Q(275))) => NoonIsMax(result)

C7_Witness ==
    /\ Called /\ ghi_daily = Q(5) /\ temperature = Q(35)
    /\ \A i \in (1..24) \ {13} :
          ~RLeq(result.hourly_production[13], result.hourly_production[i])

\* C9: with a daily irradiance of 0 all 24 hourly entries are 0 and the
\* total is 0, for every panel and temperature.
C9_ZeroIrradianceZeroOutput ==
    (Called /\ IsZero(ghi_daily)) =>
       /\ Len(result.hourly_production) = 24
       /\ \A i \in 1..Len(result.hourly_production) : IsZero(result.hourly_production[i])
       /\ IsZero(result.total_production)

C9_Witness ==
    /\ Called /\ IsZero(ghi_daily) /\ temperature = Q(300) /\ efficiency = Norm(30, 100)
    /\ IsZero(result.total_production)

=============================================================================
